---- MODULE Spec2Model ----
(***************************************************************************)
(* A model of robinhood-rs: the session (struct Robinhood), the request    *)
(* dispatcher (Robinhood::req / send_req), the token refresh               *)
(* (Robinhood::refresh_token) and the MFA login (MfaLogin).                *)
(*                                                                         *)
(* Strings the program only stores and compares are modelled by distinct   *)
(* names; JSON values, option values and results are uniformly typed       *)
(* records so that every comparison the code makes is a comparison here.   *)
(***************************************************************************)
EXTENDS Integers, Sequences, FiniteSets, TLC

\* ----------------------------------------------------------------- bounds
\* Access and refresh tokens range over MaxTok + 1 distinct strings each.
MaxTok == 1
\* One dispatch makes at most MaxSends sends: the server stops answering
\* with an outcome that makes send_req loop once this many were made.
MaxSends == 2
\* The caller asks for an MFA code at most MaxRequests times per login.
MaxRequests == 2

\* -------------------------------------------------------------- constants
EXPIRES_IN == 86400
CLIENT_ID == "c82SH0WZOsabOXGP2sxqcj34FxkvfnWRZBKlBjFS"
USER_AGENT == "Mozilla/5.0 (Windows NT 10.0; Win64; x64) AppleWebKit/537.36 (KHTML, like Gecko) Chrome/88.0.4324.182 Safari/537.36 Edg/88.0.705.81"
ROBINHOOD_API_URL == "https://api.robinhood.com/"
LOG_IN_PATH == "oauth2/token/"
QUOTES_PATH == "quotes/"

\* ------------------------------------------------------------ value sets
AccessNames == <<"a0", "a1", "a2", "a3", "a4", "a5">>
RefreshNames == <<"r0", "r1", "r2", "r3", "r4", "r5">>
AccessTokens == {AccessNames[i] : i \in 1..(MaxTok + 1)}
RefreshTokens == {RefreshNames[i] : i \in 1..(MaxTok + 1)}
\* token lifetimes a server may answer with
Ttls == {EXPIRES_IN, 3600}
\* device identifiers (Uuid values) and their hyphenated text
Uuids == {"U1", "U2"}
UuidToString(u) ==
    IF u = "U1" THEN "67e55044-10b1-426f-9247-bb680e5fe0c8"
    ELSE IF u = "U2" THEN "936da01f-9abd-4d9d-80c7-02af85c822a8"
    ELSE ""
\* Uuid::from_str: the text forms the uuid crate parses are the hyphenated
\* form (8-4-4-4-12), the simple form (32 digits) and the hyphenated form
\* behind "urn:uuid:", with hexadecimal digits of either case
HexDigits ==
    {"0", "1", "2", "3", "4", "5", "6", "7", "8", "9",
     "a", "b", "c", "d", "e", "f", "A", "B", "C", "D", "E", "F"}
LowerDigit(c) ==
    CASE c = "A" -> "a" [] c = "B" -> "b" [] c = "C" -> "c"
      [] c = "D" -> "d" [] c = "E" -> "e" [] c = "F" -> "f"
      [] OTHER -> c
RECURSIVE LowerStr(_)
LowerStr(str) ==
    IF Len(str) = 0 THEN ""
    ELSE LowerDigit(SubSeq(str, 1, 1)) \o LowerStr(SubSeq(str, 2, Len(str)))
StripUrn(text) ==
    IF Len(text) = 45 /\ SubSeq(text, 1, 9) = "urn:uuid:"
    THEN SubSeq(text, 10, 45)
    ELSE text
\* the 32 digits of a text, "" if it has neither of the two lengths or its
\* hyphens are not where the groups end
UuidDigits(text) ==
    IF Len(text) = 32 THEN text
    ELSE IF /\ Len(text) = 36
            /\ \A i \in {9, 14, 19, 24} : SubSeq(text, i, i) = "-"
    THEN SubSeq(text, 1, 8) \o SubSeq(text, 10, 13) \o SubSeq(text, 15, 18)
             \o SubSeq(text, 20, 23) \o SubSeq(text, 25, 36)
    ELSE ""
UuidSimple(u) == UuidDigits(UuidToString(u))
UuidFromStr(text) ==
    LET d == UuidDigits(StripUrn(text)) IN
      IF /\ Len(d) = 32
         /\ \A i \in 1..32 : SubSeq(d, i, i) \in HexDigits
         /\ \E u \in Uuids : UuidSimple(u) = LowerStr(d)
      THEN [ok |-> TRUE,
            uuid |-> CHOOSE u \in Uuids : UuidSimple(u) = LowerStr(d)]
      ELSE [ok |-> FALSE, uuid |-> ""]
\* texts a caller may pass to change_device_token_str: each form of the
\* identifiers of Uuids, and texts that are no identifier
DeviceTexts ==
    { "67e55044-10b1-426f-9247-bb680e5fe0c8",
      "936da01f-9abd-4d9d-80c7-02af85c822a8",
      "67E5504410B1426F9247BB680E5FE0C8",
      "urn:uuid:936da01f-9abd-4d9d-80c7-02af85c822a8",
      "", "not-a-uuid",
      "67e55044-10b1-426f-9247-bb680e5fe0c",
      "67e55044-10b1-426f-9247-bb680e5fe0cg",
      "67e550441-0b1-426f-9247-bb680e5fe0c8",
      "67e5504410b1426f9247bb680e5fe0cZ" }
\* the url of get_quote for one symbol, and the login url
QuoteUrl == "https://api.robinhood.com/quotes/SPY/"
LoginUrl == "https://api.robinhood.com/oauth2/token/"
Urls == {QuoteUrl}

\* ---------------------------------------------------------- Option<String>
None == [some |-> FALSE, v |-> ""]
Some(x) == [some |-> TRUE, v |-> x]

\* ------------------------------------------------------ serde_json::Value
JStr(x) == [t |-> "str", s |-> x, n |-> 0]
JNum(x) == [t |-> "num", s |-> "", n |-> x]
JNull == [t |-> "null", s |-> "", n |-> 0]
\* a JSON object is a map from keys to values; any other JSON value
\* (array, scalar) has no fields
JObject(m) == [obj |-> TRUE, f |-> m]
JEmptyArray == [obj |-> FALSE, f |-> [k \in {} |-> JNull]]
\* body["key"]: Null when the value is not an object or has no such key
Index(body, key) ==
    IF body.obj /\ key \in DOMAIN body.f THEN body.f[key] ELSE JNull
\* Value::as_str
AsStr(v) == IF v.t = "str" THEN Some(v.s) ELSE None
\* Map::insert
MapInsert(m, key, val) ==
    [k \in (DOMAIN m) \cup {key} |-> IF k = key THEN val ELSE m[k]]

\* ------------------------------------------------------- struct Robinhood
VARIABLES
    session,    \* the one Robinhood value the caller owns
    proc,       \* per caller context: the operation it runs on the session
    rotated,    \* the refresh token the latest successful refresh replaced
    mfa,        \* the MfaLogin value of the login in progress
    lg,         \* the login in progress: where it is and what it has sent
    call        \* the setter the caller invoked last, and the session before

\* Robinhood::token_login; `retries` has its documented default and
\* `auto_retry`, which no constructor of the source sets, is a parameter
TokenLogin(token, refresh_token, device_token, auto_retry) ==
    [ device_token |-> device_token,
      password |-> None,
      username |-> None,
      user_agent |-> USER_AGENT,
      token |-> token,
      refresh_token |-> refresh_token,
      token_expires_in |-> EXPIRES_IN,
      auto_refresh |-> TRUE,
      auto_retry |-> auto_retry,
      retries |-> 200 ]

\* impl AgentToken for Robinhood
SessionUserAgent(s) == s.user_agent
SessionToken(s) == Some(s.token)

\* set_req_headers: User-Agent always, Authorization only with a token
BearerOf(token) == <<"Bearer ", token>>
SetReqHeadersMutant(user_agent, token) ==
    [ user_agent |-> user_agent,
      has_auth |-> TRUE,
      authorization |-> BearerOf(IF token.some THEN token.v ELSE "") ]
SetReqHeaders(user_agent, token) ==
    [ user_agent |-> user_agent,
      has_auth |-> token.some,
      authorization |-> IF token.some THEN BearerOf(token.v) ELSE <<>> ]

\* ------------------------------------------------- refresh_token: pieces
\* the compare guard on old_refresh_token
RefreshSkipsMutant(s, old) == old.some /\ s.refresh_token = old.v
RefreshSkips(s, old) == old.some /\ s.refresh_token # old.v

\* RefreshTokenPayload built from the session
RefreshTokenPayloadMutant(s) ==
    [ client_id |-> CLIENT_ID,
      device_token |-> "U1",
      grant_type |-> "refresh_token",
      refresh_token |-> s.refresh_token,
      scope |-> "internal",
      token_type |-> "Bearer" ]
RefreshTokenPayload(s) ==
    [ client_id |-> CLIENT_ID,
      device_token |-> s.device_token,
      grant_type |-> "refresh_token",
      refresh_token |-> s.refresh_token,
      scope |-> "internal",
      token_type |-> "Bearer" ]
NoGrant ==
    [ client_id |-> "", device_token |-> "", grant_type |-> "",
      refresh_token |-> "", scope |-> "", token_type |-> "" ]

\* serde_json::from_value::<LoginSuccess>
IsLoginSuccess(body) ==
    /\ body.obj
    /\ Index(body, "access_token").t = "str"
    /\ Index(body, "expires_in").t = "num"
    /\ Index(body, "expires_in").n >= 0    \* u32
    /\ Index(body, "token_type") = JStr("Bearer")
    /\ Index(body, "scope") = JStr("internal")
    /\ Index(body, "refresh_token").t = "str"
    /\ Index(body, "mfa_code").t \in {"null", "str"}
LoginSuccess(body) ==
    [ access_token |-> Index(body, "access_token").s,
      expires_in |-> Index(body, "expires_in").n,
      refresh_token |-> Index(body, "refresh_token").s ]

\* the `error` marker of a refresh response
IsInvalidGrantMutant(body) == AsStr(Index(body, "error")) = Some("invalid_token")
IsInvalidGrant(body) == AsStr(Index(body, "error")) = Some("invalid_grant")

\* ------------------------------------------------ what the server answers
SuccessBody(a, r, x) ==
    JObject([ access_token |-> JStr(a), expires_in |-> JNum(x),
              token_type |-> JStr("Bearer"), scope |-> JStr("internal"),
              refresh_token |-> JStr(r) ])
SuccessBodies ==
    {SuccessBody(a, r, x) : a \in AccessTokens, r \in RefreshTokens, x \in Ttls}
InvalidGrantBody == JObject([error |-> JStr("invalid_grant")])
OtherBodies ==
    { InvalidGrantBody,
      \* an invalid_grant marker next to token fields
      JObject(MapInsert(SuccessBody("a0", "r1", 3600).f, "error",
                        JStr("invalid_grant"))),
      \* another error, an error that is not a string
      JObject([error |-> JStr("invalid_client")]),
      JObject([error |-> JNum(1)]),
      \* token fields missing or of the wrong type
      JObject([access_token |-> JStr("a1"), expires_in |-> JNum(3600),
               token_type |-> JStr("Bearer"), scope |-> JStr("internal")]),
      JObject(MapInsert(SuccessBody("a1", "r0", 3600).f, "access_token",
                        JNum(7))),
      JEmptyArray }
\* the outcome of `.send().await` followed by `.json::<Value>().await`
BodyResponses == {[kind |-> "body", body |-> b] : b \in SuccessBodies \cup OtherBodies}
SendErr == [kind |-> "send_err", body |-> JEmptyArray]
JsonErr == [kind |-> "json_err", body |-> JEmptyArray]
NoResponse == [kind |-> "none", body |-> JEmptyArray]
RefreshResponses == BodyResponses \cup {SendErr, JsonErr}

\* the outcome of `req.send().await` in send_req: Ok(res) with the status
\* of the response, or Err(e) with e.status(), e.is_connect(), e.is_timeout()
Statuses == {200, 401, 404, 500}
OkRes(st) ==
    [ok |-> TRUE, has_status |-> TRUE, status |-> st,
     connect |-> FALSE, timeout |-> FALSE]
ErrStatus(st) ==
    [ok |-> FALSE, has_status |-> TRUE, status |-> st,
     connect |-> FALSE, timeout |-> FALSE]
ErrConnect ==
    [ok |-> FALSE, has_status |-> FALSE, status |-> 0,
     connect |-> TRUE, timeout |-> FALSE]
ErrTimeout ==
    [ok |-> FALSE, has_status |-> FALSE, status |-> 0,
     connect |-> FALSE, timeout |-> TRUE]
ErrOther ==
    [ok |-> FALSE, has_status |-> FALSE, status |-> 0,
     connect |-> FALSE, timeout |-> FALSE]
NoOutcome ==
    [ok |-> FALSE, has_status |-> FALSE, status |-> -1,
     connect |-> FALSE, timeout |-> FALSE]
SendOutcomes ==
    {OkRes(st) : st \in Statuses}
    \cup {ErrStatus(st) : st \in Statuses \ {200}}
    \cup {ErrConnect, ErrTimeout, ErrOther}
\* StatusCode::is_server_error
IsServerError(st) == st >= 500 /\ st <= 599

\* ------------------------------------------------------------- requests
\* RobinhoodReq { kind, url, payload }
NoPayload == [some |-> FALSE, v |-> JEmptyArray]
SomePayload(v) == [some |-> TRUE, v |-> v]
Payloads == {NoPayload, SomePayload(JObject([symbol |-> JStr("SPY")]))}
ReqKinds == {"Post", "Get"}
\* the RequestBuilder that Robinhood::req hands to send_req
BuildRequest(s, kind, url, payload) ==
    [ method |-> IF kind = "Post" THEN "POST" ELSE "GET",
      url |-> url,
      json |-> IF kind = "Post" THEN payload ELSE NoPayload,
      stream |-> FALSE,
      headers |-> SetReqHeaders(SessionUserAgent(s), SessionToken(s)) ]
NoRequest ==
    [ method |-> "", url |-> "", json |-> NoPayload, stream |-> FALSE,
      headers |-> SetReqHeaders("", None) ]

\* ---------------------------------------------------------------- results
NoResult ==
    [tag |-> "none", err |-> "", e |-> NoOutcome, token |-> "",
     refresh_token |-> "", url |-> ""]
\* send_req: Ok(res)
OkResponse(o) == [NoResult EXCEPT !.tag = "Ok", !.e = o]
\* send_req: bail!(e) with the reqwest error of the failed send
BailReqwest(o) == [NoResult EXCEPT !.tag = "Err", !.err = "reqwest", !.e = o]
\* send_req: bail!("Failed to clone request. Might be a stream")
CloneFailed == [NoResult EXCEPT !.tag = "Err", !.err = "clone"]
\* refresh_token: Ok(None), Ok(Some(NewToken { .. })), Err(..)
OkNone == [NoResult EXCEPT !.tag = "OkNone"]
OkNewToken(s) ==
    [NoResult EXCEPT !.tag = "OkSome", !.token = s.token,
                     !.refresh_token = s.refresh_token]
BadRefreshToken(t) ==
    [NoResult EXCEPT !.tag = "Err", !.err = "BadRefreshToken",
                     !.refresh_token = t]
WrongResponseBody == [NoResult EXCEPT !.tag = "Err", !.err = "WrongResponseBody"]
RequestError == [NoResult EXCEPT !.tag = "Err", !.err = "RequestError"]

\* --------------------------------------------- refresh_token: the handler
\* lines 516-518: the three assignments after a LoginSuccess was parsed
StoreLoginSuccessMutant(s, ls) == [s EXCEPT !.refresh_token = ls.refresh_token]
StoreLoginSuccess(s, ls) ==
    [s EXCEPT !.refresh_token = ls.refresh_token,
              !.token = ls.access_token,
              !.token_expires_in = ls.expires_in]

RefreshSessionMutant(s, resp) ==
    IF /\ resp.kind = "body"
       /\ ~IsInvalidGrant(resp.body)
    THEN StoreLoginSuccess(s, LoginSuccess(resp.body))
    ELSE s
\* the session after refresh_token has handled the response
RefreshSession(s, resp) ==
    IF /\ resp.kind = "body"
       /\ ~IsInvalidGrant(resp.body)
       /\ IsLoginSuccess(resp.body)
    THEN StoreLoginSuccess(s, LoginSuccess(resp.body))
    ELSE s
RefreshResultMutant(s, resp) ==
    IF resp.kind # "body" THEN RequestError
    ELSE IF IsInvalidGrant(resp.body) THEN BadRefreshToken(s.refresh_token)
    ELSE WrongResponseBody
\* the value refresh_token returns for the response
RefreshResult(s, resp) ==
    IF resp.kind # "body" THEN RequestError
    ELSE IF IsInvalidGrant(resp.body) THEN BadRefreshToken(s.refresh_token)
    ELSE IF ~IsLoginSuccess(resp.body) THEN WrongResponseBody
    ELSE OkNewToken(RefreshSession(s, resp))

\* ---------------------------------------------------------- struct MfaLogin
Credentials == {<<"alice", "pw-a">>, <<"bob", "pw-b">>}
Agents == {USER_AGENT, "agent-2"}
MfaCodes == {"111111", "329503", ""}

\* MfaLogin::new, device_token being the Uuid that new_v4 drew
MfaNew(username, password, device_token) ==
    [ live |-> TRUE,
      username |-> username,
      password |-> password,
      device_token |-> device_token,
      user_agent |-> USER_AGENT,
      client_id |-> CLIENT_ID ]
NoMfa ==
    [ live |-> FALSE, username |-> "", password |-> "", device_token |-> "",
      user_agent |-> "", client_id |-> "" ]

\* impl AgentToken for MfaLogin
MfaUserAgent(m) == m.user_agent
MfaToken(m) == None

\* MfaLogin::build_login_payload
BuildLoginPayload(m) ==
    [ client_id |-> m.client_id,
      username |-> m.username,
      password |-> m.password,
      expires_in |-> EXPIRES_IN,
      scope |-> "Internal",
      grant_type |-> "Password",
      device_token |-> m.device_token ]

\* the serde names of the variants of GrantType and Scope
GrantTypeTagMutant(g) ==
    IF g = "Password" THEN "Password"
    ELSE IF g = "RefreshToken" THEN "RefreshToken"
    ELSE ""
GrantTypeTag(g) ==
    IF g = "Password" THEN "password"
    ELSE IF g = "RefreshToken" THEN "refresh_token"
    ELSE ""
ScopeTag(sc) == IF sc = "Internal" THEN "internal" ELSE ""

LogInPayloadToValueMutant(pl) == JEmptyArray
\* serde_json::to_value of a LogInPayload
LogInPayloadToValue(pl) ==
    JObject([ client_id |-> JStr(pl.client_id),
              device_token |-> JStr(UuidToString(pl.device_token)),
              expires_in |-> JNum(pl.expires_in),
              grant_type |-> JStr(GrantTypeTag(pl.grant_type)),
              scope |-> JStr(ScopeTag(pl.scope)),
              username |-> JStr(pl.username),
              password |-> JStr(pl.password) ])

\* the variants that Deserialize makes of the serde names
GrantTypeFromTag(tag) ==
    IF tag = "password" THEN Some("Password")
    ELSE IF tag = "refresh_token" THEN Some("RefreshToken")
    ELSE None
ScopeFromTag(tag) == IF tag = "internal" THEN Some("Internal") ELSE None
NoLogInPayload ==
    [ client_id |-> "", username |-> "", password |-> "", expires_in |-> 0,
      scope |-> "", grant_type |-> "", device_token |-> "" ]
\* serde_json::from_value::<LogInPayload>: every field must be there with
\* its type, a field the struct does not have is ignored
LogInPayloadFromValue(v) ==
    IF /\ v.obj
       /\ {"client_id", "device_token", "expires_in", "grant_type", "scope",
           "username", "password"} \subseteq DOMAIN v.f
       /\ \A k \in {"client_id", "device_token", "grant_type", "scope",
                    "username", "password"} : v.f[k].t = "str"
       /\ UuidFromStr(v.f["device_token"].s).ok
       /\ v.f["expires_in"].t = "num"
       /\ v.f["expires_in"].n >= 0   \* u32
       /\ GrantTypeFromTag(v.f["grant_type"].s).some
       /\ ScopeFromTag(v.f["scope"].s).some
    THEN [ok |-> TRUE,
          payload |->
            [ client_id |-> v.f["client_id"].s,
              username |-> v.f["username"].s,
              password |-> v.f["password"].s,
              expires_in |-> v.f["expires_in"].n,
              scope |-> ScopeFromTag(v.f["scope"].s).v,
              grant_type |-> GrantTypeFromTag(v.f["grant_type"].s).v,
              device_token |-> UuidFromStr(v.f["device_token"].s).uuid ]]
    ELSE [ok |-> FALSE, payload |-> NoLogInPayload]
\* str::contains
StrContains(str, pat) ==
    \E i \in 1..(Len(str) - Len(pat) + 1) :
        SubSeq(str, i, i + Len(pat) - 1) = pat

\* check_invalid_creds
INVALID_CREDS == "Unable to log in with provided credentials"
check_invalid_creds_mutant(body) ==
    AsStr(Index(body, "detail")) = Some(INVALID_CREDS)
check_invalid_creds(body) ==
    /\ AsStr(Index(body, "detail")).some
    /\ StrContains(AsStr(Index(body, "detail")).v, INVALID_CREDS)

\* what the login endpoint answers
DetailBody(d) == JObject([detail |-> JStr(d)])
MarkedDetails ==
    { "Unable to log in with provided credentials",
      "Unable to log in with provided credentials.",
      "Error: Unable to log in with provided credentials" }
UnmarkedDetails ==
    { "Unable to log in with provided credential",
      "unable to log in with provided credentials",
      "Request was throttled.",
      "" }
MfaRequiredBody ==
    JObject([mfa_required |-> JStr("true"), mfa_type |-> JStr("sms")])
LoginBodies ==
    {DetailBody(d) : d \in MarkedDetails \cup UnmarkedDetails}
    \cup { JObject([detail |-> JNum(1)]),
           MfaRequiredBody,
           JObject(MapInsert(SuccessBody("a0", "r0", EXPIRES_IN).f, "detail",
                             JStr("Unable to log in with provided credentials"))),
           JObject([access_token |-> JStr("a1"), expires_in |-> JNum(3600),
                    token_type |-> JStr("Bearer"), scope |-> JStr("internal")]),
           JEmptyArray }
    \cup SuccessBodies
LoginResponses ==
    {[kind |-> "body", body |-> b] : b \in LoginBodies} \cup {SendErr, JsonErr}

\* the value request_mfa_code returns for the response
RequestMfaCodeResult(resp) ==
    IF resp.kind # "body" THEN "RequestError"
    ELSE IF check_invalid_creds(resp.body) THEN "InvalidCredentials"
    ELSE "Ok"

\* log_in lines 165-184: the payload with the mfa_code, or the error
LogInInsertMutant(m, key, val) == [k \in {key} |-> val]
LogInInsert(m, key, val) == MapInsert(m, key, val)
LogInPayloadWithCode(m, mfa_code) ==
    LET payload == LogInPayloadToValue(BuildLoginPayload(m)) IN
      IF ~payload.obj THEN [err |-> "EmptyLoginBody", payload |-> payload]
      ELSE LET withCode == JObject(LogInInsert(payload.f, "mfa_code",
                                               JStr(mfa_code))) IN
             IF "mfa_code" \notin DOMAIN withCode.f
             THEN [err |-> "MissingMfaCode", payload |-> withCode]
             ELSE [err |-> "", payload |-> withCode]

\* the value log_in returns for the response
LogInResult(resp) ==
    IF resp.kind # "body" THEN "RequestError"
    ELSE IF check_invalid_creds(resp.body) THEN "InvalidCredentials"
    ELSE IF ~IsLoginSuccess(resp.body) THEN "BadResponseBody"
    ELSE "Ok"

\* log_in lines 219-228: the session built from the pending login
\* (`auto_retry` and `retries` are not set there: as in TokenLogin)
LogInSessionMutant(m, ls) ==
    [ device_token |-> m.device_token,
      password |-> Some(m.username),
      username |-> Some(m.password),
      user_agent |-> USER_AGENT,
      token |-> ls.access_token,
      refresh_token |-> ls.refresh_token,
      token_expires_in |-> EXPIRES_IN,
      auto_refresh |-> TRUE,
      auto_retry |-> FALSE,
      retries |-> 200 ]
LogInSession(m, ls) ==
    [ device_token |-> m.device_token,
      password |-> Some(m.password),
      username |-> Some(m.username),
      user_agent |-> m.user_agent,
      token |-> ls.access_token,
      refresh_token |-> ls.refresh_token,
      token_expires_in |-> ls.expires_in,
      auto_refresh |-> TRUE,
      auto_retry |-> FALSE,
      retries |-> 200 ]

\* no session exists yet
NoSession ==
    [ device_token |-> "", password |-> None, username |-> None,
      user_agent |-> "", token |-> "", refresh_token |-> "",
      token_expires_in |-> 0, auto_refresh |-> FALSE, auto_retry |-> FALSE,
      retries |-> 0 ]

\* log_in takes `self`: the caller no longer holds the pending login
ConsumeMutant(m) == m
Consume(m) == [m EXCEPT !.live = FALSE]

NoLogin ==
    [ pc |-> "anonymous",
      reqOk |-> FALSE, reqCalls |-> 0, lastReq |-> "none",
      reqResp |-> NoResponse, reqPayload |-> JEmptyArray, reqAt |-> NoMfa,
      reqHeaders |-> SetReqHeaders("", None),
      redeems |-> 0, code |-> "", loginPayload |-> JEmptyArray,
      loginAt |-> NoMfa, loginHeaders |-> SetReqHeaders("", None),
      loginResp |-> NoResponse, result |-> "none" ]

\* no setter was called yet
NoCall ==
    [ op |-> "none", src |-> "", b |-> FALSE, n |-> 0, s1 |-> "", s2 |-> "",
      v |-> JEmptyArray, err |-> "", before |-> NoSession ]

\* ---------------------------------------------------------- caller contexts
Procs == {"p1", "p2"}
IdleProc ==
    [ op |-> "none", pc |-> "idle", rq |-> NoRequest, sends |-> 0,
      hist |-> <<>>, refCalls |-> 0, refSent |-> 0, arg |-> None,
      grant |-> NoGrant, refHeaders |-> SetReqHeaders("", None),
      sent |-> <<>>,
      resp |-> NoResponse, refResult |-> NoResult,
      result |-> NoResult,
      pre |-> TokenLogin("", "", "", FALSE) ]

vars == <<session, proc, rotated, mfa, lg, call>>
loginVars == <<mfa, lg, call>>
sessionVars == <<session, proc, rotated, call>>

\* `&mut self`: an operation on the session starts only when no other
\* operation holds the session
Exclusive == \A q \in Procs : proc[q].pc = "idle"

Init ==
    /\ \E t \in AccessTokens, r \in RefreshTokens, d \in Uuids,
          ar \in BOOLEAN :
            session = TokenLogin(t, r, d, ar)
    /\ proc = [p \in Procs |-> IdleProc]
    /\ rotated = None
    /\ mfa = NoMfa
    /\ lg = NoLogin
    /\ call = NoCall

\* ------------------------------------------------------------- setters
\* (a setter leaves `call` to the specification it is used in)
set_token(t) ==
    /\ Exclusive
    /\ session' = [session EXCEPT !.token = t]
    /\ UNCHANGED <<proc, rotated, mfa, lg>>
set_refresh_token(r) ==
    /\ Exclusive
    /\ session' = [session EXCEPT !.refresh_token = r]
    /\ rotated' = None
    /\ UNCHANGED <<proc, mfa, lg>>
\* login.rs: set_auto_refresh(&mut self, auto_refresh: bool)
set_auto_refresh(b) ==
    /\ Exclusive
    /\ session' = [session EXCEPT !.auto_refresh = b]
    /\ UNCHANGED <<proc, rotated, mfa, lg>>
\* req.rs: set_auto_refresh(&mut self, retries: usize)
req_set_auto_refresh(retries) ==
    /\ Exclusive
    /\ session' = [session EXCEPT !.retries = retries]
    /\ UNCHANGED <<proc, rotated, mfa, lg>>
set_retries(retries) ==
    /\ Exclusive
    /\ session' = [session EXCEPT !.retries = retries]
    /\ UNCHANGED <<proc, rotated, mfa, lg>>
change_device_token(device_token) ==
    /\ Exclusive
    /\ session' = [session EXCEPT !.device_token = device_token]
    /\ UNCHANGED <<proc, rotated, mfa, lg>>
\* what change_device_token_str makes of the session and what it returns
ChangeDeviceTokenStrMutant(s, device_token) ==
    LET parsed == UuidFromStr(device_token) IN
      IF parsed.ok
      THEN [session |-> [s EXCEPT !.device_token = parsed.uuid], err |-> ""]
      ELSE [session |-> [s EXCEPT !.device_token = ""], err |-> "ParseError"]
ChangeDeviceTokenStr(s, device_token) ==
    LET parsed == UuidFromStr(device_token) IN
      IF parsed.ok
      THEN [session |-> [s EXCEPT !.device_token = parsed.uuid], err |-> ""]
      ELSE [session |-> s, err |-> "ParseError"]
change_device_token_str(device_token) ==
    /\ Exclusive
    /\ session' = ChangeDeviceTokenStr(session, device_token).session
    /\ UNCHANGED <<proc, rotated, mfa, lg>>
\* the record of a setter call: its name, source file and arguments, what
\* it returned, and the session it was called on
Called(op, src, b, n, s1, err) ==
    call' = [ op |-> op, src |-> src, b |-> b, n |-> n, s1 |-> s1, s2 |-> "",
              v |-> JEmptyArray, err |-> err, before |-> session ]
\* the record of a call of req: the RobinhoodReq the caller passed
Requested(kind, url, payload) ==
    call' = [NoCall EXCEPT !.op = "req", !.src = "req.rs", !.s2 = kind,
                           !.s1 = url, !.b = payload.some, !.v = payload.v,
                           !.before = session]

\* ---------------------------------------------- refresh_token: the call
\* refresh_token up to its await: the guard, the payload, the POST.
\* Gives the record of context p after the call, p being at `cur`.
CallRefresh(cur, s, old) ==
    IF RefreshSkips(s, old)
    THEN [cur EXCEPT !.refCalls = @ + 1, !.arg = old, !.result = OkNone,
                     !.pc = "skipped"]
    ELSE [cur EXCEPT !.refCalls = @ + 1, !.arg = old, !.refSent = @ + 1,
                     !.grant = RefreshTokenPayload(s),
                     !.refHeaders =
                         SetReqHeaders(SessionUserAgent(s), SessionToken(s)),
                     !.pc = "refresh"]

\* an operation starts in an idle context; with excl it also needs the
\* session to itself
Begin(p, excl) == proc[p].pc = "idle" /\ (excl => Exclusive)

\* the caller invokes refresh_token(old) itself
refresh_token(p, old, excl) ==
    /\ Begin(p, excl)
    /\ LET c == CallRefresh([IdleProc EXCEPT !.op = "refresh_token",
                                             !.pre = session], session, old)
       IN proc' = [proc EXCEPT ![p] =
                     IF c.pc = "skipped"
                     THEN [c EXCEPT !.pc = "done", !.refResult = OkNone]
                     ELSE c]
    /\ UNCHANGED <<session, rotated, loginVars>>

\* --------------------------------------------------------- req, send_req
\* one turn of the loop of send_req up to its await: try_clone, send.
\* `sent` keeps, per attempt, the clone that went out, the token the
\* session (s) held then and the number of refreshes made before it
AttemptMutant(cur, s) ==
    IF cur.rq.stream
    THEN [cur EXCEPT !.pc = "done", !.result = CloneFailed]
    ELSE [cur EXCEPT !.pc = "send", !.sends = @ + 1,
                     !.sent = Append(@, [rq |-> [cur.rq EXCEPT
                                                   !.json = IF cur.sends = 0
                                                            THEN @ ELSE NoPayload],
                                         token |-> s.token,
                                         after |-> cur.refCalls])]
Attempt(cur, s) ==
    IF cur.rq.stream
    THEN [cur EXCEPT !.pc = "done", !.result = CloneFailed]
    ELSE [cur EXCEPT !.pc = "send", !.sends = @ + 1,
                     !.sent = Append(@, [rq |-> cur.rq, token |-> s.token,
                                         after |-> cur.refCalls])]

\* Robinhood::req: build the request, enter send_req
req(p, kind, url, payload, excl) ==
    /\ Begin(p, excl)
    /\ proc' = [proc EXCEPT ![p] =
                  Attempt([IdleProc EXCEPT
                             !.op = "req", !.pre = session,
                             !.rq = BuildRequest(session, kind, url, payload)],
                          session)]
    /\ UNCHANGED <<session, rotated, mfa, lg>>

\* send_req line 59 calls `self.refresh_token()`: the call site names no
\* old_refresh_token. The argument is either absent or, as the design
\* describes it, the refresh token the session holds at the call.
DispatchRefreshArgs(s) == {None, Some(s.refresh_token)}

\* what send_req does with Err(e) of a send: "refresh", "retry" or "bail"
OnSendErrMutant(s, o) ==
    IF o.has_status
    THEN IF o.status = 401 /\ s.auto_refresh THEN "refresh"
         ELSE IF IsServerError(o.status) /\ s.auto_retry THEN "retry"
         ELSE "bail"
    ELSE IF s.auto_retry THEN "retry"
         ELSE "bail"
OnSendErr(s, o) ==
    IF o.has_status
    THEN IF o.status = 401 /\ s.auto_refresh THEN "refresh"
         ELSE IF IsServerError(o.status) /\ s.auto_retry THEN "retry"
         ELSE "bail"
    ELSE IF (o.connect \/ o.timeout) /\ s.auto_retry THEN "retry"
         ELSE "bail"

\* after `self.refresh_token().await` did not fail, send_req is at line 68
AfterRefreshOk(cur, o) ==
    [cur EXCEPT !.pc = "done", !.result = BailReqwest(o)]

\* send_req: the send of context p returns outcome o
send_return(p, o) ==
    /\ proc[p].pc = "send"
    /\ o \in SendOutcomes
    /\ (~o.ok /\ OnSendErr(session, o) = "retry") => proc[p].sends < MaxSends
    /\ LET cur == [proc[p] EXCEPT !.hist = Append(@, o)] IN
         IF o.ok
         THEN proc' = [proc EXCEPT ![p] =
                         [cur EXCEPT !.pc = "done", !.result = OkResponse(o)]]
         ELSE IF OnSendErr(session, o) = "refresh"
         THEN \E old \in DispatchRefreshArgs(session) :
                LET c == CallRefresh(cur, session, old) IN
                  proc' = [proc EXCEPT ![p] =
                             IF c.pc = "skipped"
                             THEN AfterRefreshOk([c EXCEPT !.refResult = OkNone], o)
                             ELSE c]
         ELSE IF OnSendErr(session, o) = "retry"
         THEN proc' = [proc EXCEPT ![p] = Attempt(cur, session)]
         ELSE proc' = [proc EXCEPT ![p] =
                         [cur EXCEPT !.pc = "done", !.result = BailReqwest(o)]]
    /\ UNCHANGED <<session, rotated, loginVars>>

\* refresh_token: the POST of context p returns resp; the rest of
\* refresh_token runs and, in a dispatch, the rest of send_req
refresh_return(p, resp) ==
    /\ proc[p].pc = "refresh"
    /\ resp \in RefreshResponses
    /\ session' = RefreshSession(session, resp)
    /\ rotated' = IF RefreshResult(session, resp).tag = "OkSome"
                  THEN Some(session.refresh_token) ELSE rotated
    /\ UNCHANGED loginVars
    /\ LET r == RefreshResult(session, resp)
           cur == [proc[p] EXCEPT !.resp = resp, !.refResult = r] IN
         proc' = [proc EXCEPT ![p] =
                    IF cur.op = "refresh_token"
                    THEN [cur EXCEPT !.pc = "done", !.result = r]
                    ELSE IF r.tag = "Err"
                    THEN [cur EXCEPT !.pc = "done", !.result = r]
                    ELSE AfterRefreshOk(cur, cur.hist[Len(cur.hist)])]

\* the caller takes the result; the context is free again
return(p) ==
    /\ proc[p].pc = "done"
    /\ proc' = [proc EXCEPT ![p] = IdleProc]
    /\ UNCHANGED <<session, rotated, loginVars>>

\* ------------------------------------------------------------ MFA login
\* request_mfa_code up to its await: the payload and headers it POSTs
SendLoginRequest(l, m) ==
    [l EXCEPT !.reqCalls = @ + 1,
              !.reqPayload = LogInPayloadToValue(BuildLoginPayload(m)),
              !.reqAt = m,
              !.reqHeaders = SetReqHeaders(MfaUserAgent(m), MfaToken(m))]

\* Robinhood::mfa_login: MfaLogin::new, then request_mfa_code
mfa_login(username, password, device_token) ==
    /\ lg.pc = "anonymous"
    /\ mfa' = MfaNew(username, password, device_token)
    /\ lg' = [SendLoginRequest(lg, mfa') EXCEPT !.pc = "mfa_login"]
    /\ UNCHANGED sessionVars

\* Robinhood::mfa_login: request_mfa_code returns; `?` drops the MfaLogin
\* on an error, Ok hands it to the caller
mfa_login_return(resp) ==
    /\ lg.pc = "mfa_login"
    /\ LET r == RequestMfaCodeResult(resp) IN
         /\ lg' = [lg EXCEPT !.reqResp = resp, !.lastReq = r,
                             !.reqOk = (r = "Ok"),
                             !.result = IF r = "Ok" THEN @ ELSE r,
                             !.pc = IF r = "Ok" THEN "pending" ELSE "failed"]
         /\ mfa' = IF r = "Ok" THEN mfa ELSE NoMfa
    /\ UNCHANGED sessionVars

\* the caller calls request_mfa_code on the MfaLogin it holds
request_mfa_code ==
    /\ lg.pc = "pending" /\ mfa.live
    /\ lg.reqCalls < MaxRequests
    /\ lg' = [SendLoginRequest(lg, mfa) EXCEPT !.pc = "request"]
    /\ UNCHANGED <<mfa, session, proc, rotated, call>>
request_mfa_code_return(resp) ==
    /\ lg.pc = "request"
    /\ lg' = [lg EXCEPT !.reqResp = resp,
                        !.lastReq = RequestMfaCodeResult(resp),
                        !.pc = "pending"]
    /\ UNCHANGED <<mfa, session, proc, rotated, call>>

\* the setters of MfaLogin
mfa_set_credentials(username, password) ==
    /\ lg.pc = "pending" /\ mfa.live
    /\ mfa' = [mfa EXCEPT !.username = username, !.password = password]
    /\ UNCHANGED <<lg, session, proc, rotated, call>>
mfa_change_device_token(device_token) ==
    /\ lg.pc = "pending" /\ mfa.live
    /\ mfa' = [mfa EXCEPT !.device_token = device_token]
    /\ UNCHANGED <<lg, session, proc, rotated, call>>
mfa_change_agent(user_agent) ==
    /\ lg.pc = "pending" /\ mfa.live
    /\ mfa' = [mfa EXCEPT !.user_agent = user_agent]
    /\ UNCHANGED <<lg, session, proc, rotated, call>>

\* MfaLogin::log_in up to its await
log_in(mfa_code) ==
    /\ lg.pc \in {"pending", "authenticated", "failed"} /\ mfa.live
    /\ LET built == LogInPayloadWithCode(mfa, mfa_code) IN
         lg' = IF built.err # ""
               THEN [lg EXCEPT !.redeems = @ + 1, !.code = mfa_code,
                               !.loginAt = mfa, !.result = built.err,
                               !.pc = "failed"]
               ELSE [lg EXCEPT !.redeems = @ + 1, !.code = mfa_code,
                               !.loginAt = mfa,
                               !.loginPayload = built.payload,
                               !.loginHeaders =
                                   SetReqHeaders(MfaUserAgent(mfa), MfaToken(mfa)),
                               !.pc = "log_in"]
    /\ mfa' = Consume(mfa)
    /\ UNCHANGED sessionVars

\* MfaLogin::log_in: the POST returns
log_in_return(resp) ==
    /\ lg.pc = "log_in"
    /\ LET r == LogInResult(resp) IN
         /\ lg' = [lg EXCEPT !.loginResp = resp, !.result = r,
                             !.pc = IF r = "Ok" THEN "authenticated" ELSE "failed"]
         /\ session' = IF r = "Ok"
                       THEN LogInSession(lg.loginAt, LoginSuccess(resp.body))
                       ELSE session
    /\ UNCHANGED <<mfa, proc, rotated, call>>

\* ------------------------------------------------------- specifications
RefreshArgs == {None} \cup {Some(r) : r \in RefreshTokens}

\* one caller owns the session (`&mut self`): operations do not overlap
Owner == {"p1"}
Next ==
    \/ \E t \in AccessTokens : set_token(t) /\ UNCHANGED call
    \/ \E r \in RefreshTokens : set_refresh_token(r) /\ UNCHANGED call
    \/ \E b \in BOOLEAN : set_auto_refresh(b) /\ UNCHANGED call
    \/ \E d \in Uuids : change_device_token(d) /\ UNCHANGED call
    \/ \E p \in Owner, old \in RefreshArgs : refresh_token(p, old, TRUE)
    \/ \E p \in Owner, k \in ReqKinds, u \in Urls, pl \in Payloads :
         req(p, k, u, pl, TRUE) /\ UNCHANGED call
    \/ \E p \in Owner, o \in SendOutcomes : send_return(p, o)
    \/ \E p \in Owner, resp \in RefreshResponses : refresh_return(p, resp)
    \/ \E p \in Owner : return(p)

Spec == Init /\ [][Next]_vars

\* several outstanding dispatches share the session: their steps interleave
\* at the await points of send_req and refresh_token
\* (the server answers 200 or 401 to a quote request, and a token pair or
\* invalid_grant to a refresh)
ConcOutcomes == {OkRes(200), ErrStatus(401)}
ConcResponses ==
    {[kind |-> "body", body |-> b] :
        b \in {SuccessBody(AccessNames[i], RefreshNames[i], EXPIRES_IN) :
                  i \in 1..(MaxTok + 1)}
              \cup {InvalidGrantBody}}
InitConc ==
    /\ session = TokenLogin(AccessNames[1], RefreshNames[1], "U1", FALSE)
    /\ proc = [p \in Procs |-> IdleProc]
    /\ rotated = None
    /\ mfa = NoMfa
    /\ lg = NoLogin
    /\ call = NoCall
NextConc ==
    \/ \E p \in Procs, u \in Urls :
         req(p, "Get", u, NoPayload, FALSE) /\ UNCHANGED call
    \/ \E p \in Procs, o \in ConcOutcomes : send_return(p, o)
    \/ \E p \in Procs, resp \in ConcResponses : refresh_return(p, resp)
    \/ \E p \in Procs : return(p)

SpecConc == InitConc /\ [][NextConc]_vars

\* the MFA login of one caller, from credentials to a session
InitLogin ==
    /\ session = NoSession
    /\ proc = [p \in Procs |-> IdleProc]
    /\ rotated = None
    /\ mfa = NoMfa
    /\ lg = NoLogin
    /\ call = NoCall
NextLogin ==
    \/ \E c \in Credentials, d \in Uuids : mfa_login(c[1], c[2], d)
    \/ \E resp \in LoginResponses : mfa_login_return(resp)
    \/ request_mfa_code
    \/ \E resp \in LoginResponses : request_mfa_code_return(resp)
    \/ \E c \in Credentials : mfa_set_credentials(c[1], c[2])
    \/ \E d \in Uuids : mfa_change_device_token(d)
    \/ \E a \in Agents : mfa_change_agent(a)
    \/ \E c \in MfaCodes : log_in(c)
    \/ \E resp \in LoginResponses : log_in_return(resp)

SpecLogin == InitLogin /\ [][NextLogin]_vars

\* the setters of a session, called in any order on a session that
\* token_login or log_in has made
RetriesArgs == {0, 5}
InitSetters ==
    /\ \/ \E t \in AccessTokens, r \in RefreshTokens, d \in Uuids,
             ar \in BOOLEAN :
               session = TokenLogin(t, r, d, ar)
       \/ \E c \in Credentials, d \in Uuids, a \in Agents,
             b \in SuccessBodies :
               session = LogInSession(
                             [MfaNew(c[1], c[2], d) EXCEPT !.user_agent = a],
                             LoginSuccess(b))
    /\ proc = [p \in Procs |-> IdleProc]
    /\ rotated = None
    /\ mfa = NoMfa
    /\ lg = NoLogin
    /\ call = NoCall
NextSetters ==
    \/ \E t \in AccessTokens :
         set_token(t) /\ Called("set_token", "login.rs", FALSE, 0, t, "")
    \/ \E r \in RefreshTokens :
         set_refresh_token(r)
         /\ Called("set_refresh_token", "login.rs", FALSE, 0, r, "")
    \/ \E b \in BOOLEAN :
         set_auto_refresh(b)
         /\ Called("set_auto_refresh", "login.rs", b, 0, "", "")
    \/ \E n \in RetriesArgs :
         req_set_auto_refresh(n)
         /\ Called("set_auto_refresh", "req.rs", FALSE, n, "", "")
    \/ \E n \in RetriesArgs :
         set_retries(n) /\ Called("set_retries", "req.rs", FALSE, n, "", "")
    \/ \E d \in Uuids :
         change_device_token(d)
         /\ Called("change_device_token", "login.rs", FALSE, 0, d, "")
    \/ \E text \in DeviceTexts :
         change_device_token_str(text)
         /\ Called("change_device_token_str", "login.rs", FALSE, 0, text,
                   ChangeDeviceTokenStr(session, text).err)

SpecSetters == InitSetters /\ [][NextSetters]_vars
\* one caller from login to the use of the session: an MFA login with one
\* set of credentials, then dispatches and refreshes on the session that
\* log_in returned (the server answers as in SpecConc, or asks for the
\* MFA code)
FlowLoginResponses ==
    {[kind |-> "body", body |-> b] :
        b \in {MfaRequiredBody,
               SuccessBody(AccessNames[1], RefreshNames[1], EXPIRES_IN)}}
Authenticated == lg.pc = "authenticated"
NextFlow ==
    \/ mfa_login("alice", "pw-a", "U1")
    \/ \E resp \in FlowLoginResponses : mfa_login_return(resp)
    \/ request_mfa_code
    \/ \E resp \in FlowLoginResponses : request_mfa_code_return(resp)
    \/ \E a \in Agents : mfa_change_agent(a)
    \/ \E c \in MfaCodes : log_in(c)
    \/ \E resp \in FlowLoginResponses : log_in_return(resp)
    \/ Authenticated /\ \E t \in AccessTokens : set_token(t) /\ UNCHANGED call
    \/ Authenticated /\ \E p \in Owner, old \in RefreshArgs :
         refresh_token(p, old, TRUE)
    \/ Authenticated /\ \E p \in Owner, k \in ReqKinds, u \in Urls :
         req(p, k, u, NoPayload, TRUE) /\ UNCHANGED call
    \/ Authenticated /\ \E p \in Owner, o \in ConcOutcomes : send_return(p, o)
    \/ Authenticated /\ \E p \in Owner, resp \in ConcResponses :
         refresh_return(p, resp)
    \/ Authenticated /\ \E p \in Owner : return(p)

SpecFlow == InitLogin /\ [][NextFlow]_vars
\* the dispatches of one caller, one after the other, each with the
\* request the caller passed kept next to it
DispatchUrls == {QuoteUrl, LoginUrl}
NextDispatch ==
    \/ \E p \in Owner, k \in ReqKinds, u \in DispatchUrls, pl \in Payloads :
         req(p, k, u, pl, TRUE) /\ Requested(k, u, pl)
    \/ \E n \in RetriesArgs : set_retries(n) /\ UNCHANGED call
    \/ \E p \in Owner, o \in SendOutcomes : send_return(p, o)
    \/ \E p \in Owner, resp \in ConcResponses \cup {SendErr} :
         refresh_return(p, resp)
    \/ \E p \in Owner : return(p)

SpecDispatch == Init /\ [][NextDispatch]_vars
\* ===================================================================
\* Properties
\* ===================================================================
Is401(o) == o.has_status /\ o.status = 401
Is404(o) == o.has_status /\ o.status = 404
Is5xx(o) == o.has_status /\ o.status >= 500 /\ o.status <= 599
Dispatch(p) == proc[p].op = "req"
Done(p) == proc[p].pc = "done"
LastOutcome(p) == proc[p].hist[Len(proc[p].hist)]
TokensAsBefore(p) ==
    /\ session.token = proc[p].pre.token
    /\ session.refresh_token = proc[p].pre.refresh_token
    /\ session.token_expires_in = proc[p].pre.token_expires_in
\* RobinhoodErr::NotFound(url), RobinhoodErr::Unauthorized
NotFound(url) == [NoResult EXCEPT !.tag = "Err", !.err = "NotFound", !.url = url]
Unauthorized == [NoResult EXCEPT !.tag = "Err", !.err = "Unauthorized"]

\* C1 (as stated): a dispatch with auto_refresh enabled whose first send
\* gets a 401 and whose refresh succeeds makes exactly one refresh call and
\* exactly one retried send, and returns the successful response of the
\* second send.
C1_RefreshThenRetry ==
    \A p \in Procs :
        ( /\ Dispatch(p) /\ Done(p)
          /\ proc[p].pre.auto_refresh
          /\ Len(proc[p].hist) >= 1
          /\ Is401(proc[p].hist[1])
          /\ proc[p].refResult.tag = "OkSome"
          /\ (Len(proc[p].hist) >= 2 => proc[p].hist[2] = OkRes(200)) )
        => ( /\ proc[p].refCalls = 1
             /\ proc[p].sends = 2
             /\ Len(proc[p].hist) = 2
             /\ proc[p].result = OkResponse(proc[p].hist[2]) )

\* C2 (as stated): a dispatch whose send gets a 404 invokes no refresh,
\* makes no further send, leaves the tokens unchanged and fails with
\* NotFound(url) carrying the requested url.
C2_NotFoundImmediately ==
    \A p \in Procs :
        ( /\ Dispatch(p) /\ Done(p)
          /\ Len(proc[p].hist) >= 1
          /\ Is404(LastOutcome(p)) )
        => ( /\ proc[p].refCalls = 0
             /\ proc[p].sends = Len(proc[p].hist)
             /\ TokensAsBefore(p)
             /\ proc[p].result = NotFound(proc[p].rq.url) )

\* C3 (as stated): against a server that answers with server errors n times
\* and then success, a dispatch with retry enabled re-sends after each
\* server error and returns the successful response after n + 1 sends
\* without a refresh; with retry disabled it fails on the first server
\* error after one send.
C3_ServerErrorRetry ==
    \A p \in Procs :
        ( /\ Dispatch(p) /\ Done(p)
          /\ Len(proc[p].hist) >= 1
          /\ Is5xx(proc[p].hist[1])
          /\ \A i \in 1..Len(proc[p].hist) :
                Is5xx(proc[p].hist[i]) \/ proc[p].hist[i] = OkRes(200) )
        => IF proc[p].pre.auto_retry
           THEN /\ LastOutcome(p) = OkRes(200)
                /\ \A i \in 1..(Len(proc[p].hist) - 1) : Is5xx(proc[p].hist[i])
                /\ proc[p].sends = Len(proc[p].hist)
                /\ proc[p].refCalls = 0
                /\ proc[p].result = OkResponse(OkRes(200))
           ELSE /\ proc[p].sends = 1
                /\ proc[p].result.tag = "Err"

\* C4: refresh_token(Some(t)) with t different from the session's refresh
\* token returns Ok(None), sends no refresh request and leaves token,
\* refresh_token and token_expires_in unchanged.
C4_StaleRefreshIsNoOp ==
    \A p \in Procs :
        ( /\ proc[p].op = "refresh_token" /\ Done(p)
          /\ proc[p].arg.some
          /\ proc[p].arg.v # proc[p].pre.refresh_token )
        => ( /\ proc[p].result = OkNone
             /\ proc[p].refSent = 0
             /\ proc[p].grant = NoGrant
             /\ TokensAsBefore(p) )
\* a refresh called with the refresh token that a successful refresh has
\* replaced was skipped
C4_Witness ==
    \E p \in Procs :
        /\ proc[p].op = "refresh_token" /\ Done(p)
        /\ rotated.some
        /\ proc[p].arg = rotated
        /\ rotated.v # session.refresh_token
        /\ proc[p].result = OkNone

\* the response body carries an `error` field equal to "invalid_grant"
HasInvalidGrantMarker(resp) ==
    /\ resp.kind = "body"
    /\ resp.body.obj
    /\ "error" \in DOMAIN resp.body.f
    /\ resp.body.f["error"] = JStr("invalid_grant")

\* C5: a refresh whose response has error = "invalid_grant" fails with
\* BadRefreshToken carrying the refresh token that was sent, and token,
\* refresh_token and token_expires_in are as before the call.
C5_InvalidGrantKeepsTokens ==
    \A p \in Procs :
        (Done(p) /\ HasInvalidGrantMarker(proc[p].resp))
        => ( /\ proc[p].refResult = BadRefreshToken(proc[p].grant.refresh_token)
             /\ proc[p].result = proc[p].refResult
             /\ TokensAsBefore(p) )
\* an invalid_grant answer that also carried token fields was refused
C5_Witness ==
    \E p \in Procs :
        /\ Done(p) /\ HasInvalidGrantMarker(proc[p].resp)
        /\ "access_token" \in DOMAIN proc[p].resp.body.f
        /\ proc[p].result.err = "BadRefreshToken"

\* C6: the step of a refresh that receives a success body stores the
\* body's access_token, refresh_token and expires_in together and returns
\* the stored pair; the step of a refresh that receives anything else
\* stores none of the three.
C6_RefreshStoresTogether ==
    [][ \A p \in Procs :
          (proc[p].pc = "refresh" /\ proc'[p].pc = "done")
          => LET r == proc'[p].resp IN
               IF r.kind = "body" /\ r.body \in SuccessBodies
               THEN /\ session'.token = r.body.f["access_token"].s
                    /\ session'.refresh_token = r.body.f["refresh_token"].s
                    /\ session'.token_expires_in = r.body.f["expires_in"].n
                    /\ proc'[p].refResult.tag = "OkSome"
                    /\ proc'[p].refResult.token = session'.token
                    /\ proc'[p].refResult.refresh_token = session'.refresh_token
               ELSE /\ session'.token = session.token
                    /\ session'.refresh_token = session.refresh_token
                    /\ session'.token_expires_in = session.token_expires_in
      ]_vars
\* a refresh has replaced all three fields
C6_Witness ==
    \E p \in Procs :
        /\ Done(p) /\ proc[p].refResult.tag = "OkSome"
        /\ session.token # proc[p].pre.token
        /\ session.refresh_token # proc[p].pre.refresh_token
        /\ session.token_expires_in # proc[p].pre.token_expires_in

\* context q's dispatch has refreshed successfully and replaced the refresh
\* token R under which the dispatch of context p was started, and p has not
\* yet observed its 401 or has its own refresh of R outstanding
RotatedUnder(p, q) ==
    /\ p # q /\ Dispatch(p) /\ Dispatch(q)
    /\ proc[q].refResult.tag = "OkSome"
    /\ proc[q].grant.refresh_token = proc[p].pre.refresh_token
    /\ session.refresh_token # proc[p].pre.refresh_token
    /\ \/ proc[p].pc = "send"
       \/ /\ proc[p].pc = "refresh"
          /\ proc[p].grant.refresh_token = proc[p].pre.refresh_token

HasCredentialFailureMarker(resp) ==
    /\ resp.kind = "body"
    /\ resp.body.obj
    /\ "detail" \in DOMAIN resp.body.f
    /\ resp.body.f["detail"].t = "str"
    /\ resp.body.f["detail"].s \in MarkedDetails

\* C8: when the login request got a JSON body, request_mfa_code fails with
\* InvalidCredentials exactly when the body has a string `detail` containing
\* the marker, returns Ok(()) otherwise, and no session or token exists
\* before log_in.
C8_InvalidCredentialsIffMarker ==
    /\ lg.reqResp.kind = "body"
        => /\ (lg.lastReq = "InvalidCredentials")
                <=> HasCredentialFailureMarker(lg.reqResp)
           /\ ~HasCredentialFailureMarker(lg.reqResp) => lg.lastReq = "Ok"
    /\ lg.redeems = 0 => session = NoSession
\* a body whose detail has the marker inside a longer text was refused
C8_Witness ==
    /\ lg.reqCalls = 2 /\ lg.pc = "pending"
    /\ lg.reqResp.kind = "body"
    /\ lg.reqResp.body = DetailBody("Error: Unable to log in with provided credentials")
    /\ lg.lastReq = "InvalidCredentials"

\* C9: the payload log_in sends has an mfa_code field whose value is the
\* code passed in, and its other fields are those of the payload that
\* request_mfa_code sent for the same pending login.
C9_LogInPayload ==
    (lg.redeems >= 1 /\ lg.loginPayload.obj)
    => /\ "mfa_code" \in DOMAIN lg.loginPayload.f
       /\ lg.loginPayload.f["mfa_code"] = JStr(lg.code)
       /\ lg.loginAt = lg.reqAt
            => /\ (DOMAIN lg.loginPayload.f) \ {"mfa_code"} = DOMAIN lg.reqPayload.f
               /\ \A k \in DOMAIN lg.reqPayload.f :
                     lg.loginPayload.f[k] = lg.reqPayload.f[k]
\* log_in has sent a payload for a pending login that is as it was when
\* request_mfa_code was last sent
C9_Witness ==
    /\ lg.pc = "log_in"
    /\ lg.loginAt = lg.reqAt
    /\ lg.code = "329503"
    /\ lg.loginPayload.f["username"] = JStr("bob")

\* C10 (as stated): a session comes only after request_mfa_code succeeded
\* and then log_in succeeded; a pending login whose request_mfa_code failed
\* is never redeemed; after log_in the pending login is gone.
C10_FailedNeverRedeemed ==
    /\ lg.pc = "authenticated" => (lg.reqOk /\ lg.redeems = 1)
    /\ lg.redeems >= 1 => lg.lastReq = "Ok"
    /\ lg.redeems <= 1
    /\ lg.pc \in {"authenticated", "failed"} => ~mfa.live

\* C10 (amended): a session comes only after the request_mfa_code of
\* mfa_login succeeded and then log_in succeeded; a pending login whose
\* request_mfa_code inside mfa_login failed is dropped and never redeemed;
\* log_in is called at most once on a pending login, and authenticated and
\* failed are final.
C10_LoginOrder ==
    [][ /\ lg'.pc = "authenticated" => (lg'.reqOk /\ lg'.redeems = 1)
        /\ lg'.redeems >= 1 => lg'.reqOk
        /\ ~lg'.reqOk => (lg'.pc \in {"mfa_login", "failed"} /\ lg'.redeems = 0)
        /\ (lg'.pc = "failed" /\ ~lg'.reqOk) => ~mfa'.live
        /\ lg'.redeems <= 1
        /\ lg'.pc \in {"authenticated", "failed"} => ~mfa'.live
        /\ lg.pc \in {"authenticated", "failed"} => lg'.pc = lg.pc
      ]_vars
\* a session exists although the caller's own second request_mfa_code failed
C10_Witness ==
    /\ lg.pc = "authenticated"
    /\ lg.reqOk /\ lg.redeems = 1
    /\ lg.lastReq = "InvalidCredentials"
    /\ session.token = lg.loginResp.body.f["access_token"].s

\* C11: after a successful log_in the session has auto_refresh = true, its
\* token, refresh_token and token_expires_in are the access_token,
\* refresh_token and expires_in of the response body, and its device_token,
\* user_agent, username and password are those of the pending login that
\* log_in consumed.
C11_SessionFromLogin ==
    lg.pc = "authenticated"
    => /\ session.auto_refresh = TRUE
       /\ session.token = lg.loginResp.body.f["access_token"].s
       /\ session.refresh_token = lg.loginResp.body.f["refresh_token"].s
       /\ session.token_expires_in = lg.loginResp.body.f["expires_in"].n
       /\ session.device_token = lg.loginAt.device_token
       /\ session.user_agent = lg.loginAt.user_agent
       /\ session.username = Some(lg.loginAt.username)
       /\ session.password = Some(lg.loginAt.password)
\* a login whose device, agent and credentials were changed after the code
\* was requested, answered with a lifetime other than the default one, has
\* produced a session
C11_Witness ==
    /\ lg.pc = "authenticated"
    /\ lg.loginAt.device_token # lg.reqAt.device_token
    /\ lg.loginAt.user_agent # USER_AGENT
    /\ lg.loginAt.username # lg.reqAt.username
    /\ session.username # session.password
    /\ session.token_expires_in # EXPIRES_IN

\* C12 (as stated): a dispatch with auto_refresh enabled whose send gets a
\* 401 and whose refresh fails, with BadRefreshToken or any other refresh
\* error, fails with Unauthorized and makes no further send.
C12_RefreshFailureIsUnauthorized ==
    \A p \in Procs :
        ( /\ Dispatch(p) /\ Done(p)
          /\ proc[p].pre.auto_refresh
          /\ Len(proc[p].hist) >= 1
          /\ Is401(LastOutcome(p))
          /\ proc[p].refCalls >= 1
          /\ proc[p].refResult.tag = "Err" )
        => ( /\ proc[p].result = Unauthorized
             /\ proc[p].sends = Len(proc[p].hist) )

\* C13 (as stated): with auto_refresh disabled a dispatch whose send gets a
\* 401 invokes no refresh, makes no further send and fails, and a dispatch
\* made with auto_refresh disabled leaves token, refresh_token and
\* token_expires_in as the caller last set them.
C13_NoRefreshWhenDisabled ==
    \A p \in Procs :
        (Dispatch(p) /\ Done(p) /\ ~proc[p].pre.auto_refresh)
        => /\ TokensAsBefore(p)
           /\ proc[p].refCalls = 0
           /\ (Len(proc[p].hist) >= 1 /\ Is401(LastOutcome(p)))
                => /\ proc[p].sends = Len(proc[p].hist)
                   /\ proc[p].result.tag = "Err"

\* C19 (as stated): no dispatch returns Ok with a response whose status is
\* 401, 404 or a server error.
C19_OkOnlyForNonErrorStatus ==
    \A p \in Procs :
        (Dispatch(p) /\ Done(p) /\ proc[p].result.tag = "Ok")
        => /\ proc[p].result.e.status # 401
           /\ proc[p].result.e.status # 404
           /\ ~IsServerError(proc[p].result.e.status)

\* C20: when a send of a dispatch fails with a transport error (an error
\* without a status), then if it is a connection or timeout error and retry
\* is enabled the dispatch sends again, and otherwise (retry disabled, or
\* another transport error whatever the settings) the dispatch fails with
\* that error without sending again, after a single send when retry is
\* disabled; in no case is a refresh invoked.
C20_TransportErrors ==
    [][ \A p \in Procs :
          ( /\ Dispatch(p) /\ proc[p].pc = "send"
            /\ Len(proc'[p].hist) = Len(proc[p].hist) + 1 )
          => LET o == proc'[p].hist[Len(proc'[p].hist)] IN
               (~o.ok /\ ~o.has_status)
               => /\ proc'[p].refCalls = 0
                  /\ IF (o.connect \/ o.timeout) /\ session.auto_retry
                     THEN /\ proc'[p].pc = "send"
                          /\ proc'[p].sends = proc[p].sends + 1
                     ELSE /\ proc'[p].pc = "done"
                          /\ proc'[p].result = BailReqwest(o)
                          /\ proc'[p].sends = proc[p].sends
                          /\ ~session.auto_retry => proc'[p].sends = 1
      ]_vars
\* a dispatch with retry enabled has sent again after a timeout and then
\* failed with a transport error of another kind
C20_Witness ==
    \E p \in Procs :
        /\ Dispatch(p) /\ Done(p)
        /\ proc[p].pre.auto_retry
        /\ proc[p].hist = <<ErrTimeout, ErrOther>>
        /\ proc[p].sends = 2
        /\ proc[p].result = BailReqwest(ErrOther)

\* C18 (as stated): every send attempt of a dispatch carries the headers of
\* the session as it is at the moment of that attempt, and a dispatch whose
\* refresh succeeded sends again with "Bearer <new token>", the token that
\* the refresh stored.
C18_SendCarriesCurrentHeaders ==
    \A p \in Procs :
        Dispatch(p)
        => /\ \A i \in 1..Len(proc[p].sent) :
                 /\ proc[p].sent[i].rq.headers.has_auth
                 /\ proc[p].sent[i].rq.headers.authorization
                        = <<"Bearer ", proc[p].sent[i].token>>
           /\ (Done(p) /\ proc[p].refResult.tag = "OkSome")
                => \E i \in 1..Len(proc[p].sent) :
                      /\ proc[p].sent[i].after >= 1
                      /\ proc[p].sent[i].rq.headers.authorization
                             = <<"Bearer ", proc[p].refResult.token>>

\* C14 (as stated): set_auto_refresh changes only the auto_refresh flag of
\* the session, every other field (among them retries and the tokens) is
\* as before the call, and the flag is true on every session that log_in
\* or token_login has just made.
C14_SetAutoRefreshOnlyFlag ==
    /\ call.op = "none" => session.auto_refresh = TRUE
    /\ call.op = "set_auto_refresh"
         => /\ session = [call.before EXCEPT !.auto_refresh = session.auto_refresh]
            /\ call.src = "login.rs" => session.auto_refresh = call.b

\* the identifier that a text denotes, by the forms listed in the
\* documentation of the uuid crate
TextsOf(u) ==
    IF u = "U1"
    THEN {"67e55044-10b1-426f-9247-bb680e5fe0c8",
          "67E5504410B1426F9247BB680E5FE0C8"}
    ELSE {"936da01f-9abd-4d9d-80c7-02af85c822a8",
          "urn:uuid:936da01f-9abd-4d9d-80c7-02af85c822a8"}

\* C16: change_device_token sets device_token to the identifier given, and
\* change_device_token_str called with a text of an identifier returns Ok
\* and sets device_token to that identifier; both leave token,
\* refresh_token and token_expires_in unchanged. change_device_token_str
\* called with any other text returns the parse error, leaves the session
\* with its device_token as it was, and no request is made.
C16_ChangeDeviceToken ==
    /\ call.op = "change_device_token"
         => session = [call.before EXCEPT !.device_token = call.s1]
    /\ call.op = "change_device_token_str"
         => /\ \A p \in Procs : proc[p] = IdleProc
            /\ IF \E u \in Uuids : call.s1 \in TextsOf(u)
               THEN /\ call.err = ""
                    /\ call.s1 \in TextsOf(session.device_token)
                    /\ session = [call.before EXCEPT
                                     !.device_token = session.device_token]
               ELSE /\ call.err = "ParseError"
                    /\ session = call.before
\* a text that is one digit short was refused on a session that log_in
\* made
C16_Witness ==
    /\ call.op = "change_device_token_str"
    /\ call.s1 = "67e55044-10b1-426f-9247-bb680e5fe0c"
    /\ call.err = "ParseError"
    /\ session.device_token = "U1"
    /\ session.username.some

\* C17: a login payload that is serialized and deserialized again comes
\* back with the same client_id, device_token, expires_in, username and
\* password and the same grant_type and scope, which are written as
\* "password" (or "refresh_token") and "internal" in between. Stated for
\* the payload of every pending login at the moment it has sent a request,
\* with either grant type.
C17_PayloadRoundTrip ==
    lg.pc \in {"mfa_login", "request"}
    => \A g \in {"Password", "RefreshToken"} :
         LET pl == [BuildLoginPayload(lg.reqAt) EXCEPT !.grant_type = g]
             wire == LogInPayloadToValue(pl)
             back == LogInPayloadFromValue(wire) IN
           /\ wire.f["grant_type"]
                = JStr(IF g = "Password" THEN "password" ELSE "refresh_token")
           /\ wire.f["scope"] = JStr("internal")
           /\ back.ok
           /\ back.payload.client_id = pl.client_id
           /\ back.payload.device_token = pl.device_token
           /\ back.payload.expires_in = pl.expires_in
           /\ back.payload.username = pl.username
           /\ back.payload.password = pl.password
           /\ back.payload.grant_type = g
           /\ back.payload.scope = "Internal"
\* the payload that went out for a pending login with the second device and
\* changed credentials reads back as built
C17_Witness ==
    /\ lg.pc = "request"
    /\ lg.reqAt.device_token = "U2"
    /\ lg.reqAt.username = "bob"
    /\ lg.reqPayload.f["device_token"]
         = JStr("936da01f-9abd-4d9d-80c7-02af85c822a8")
    /\ LogInPayloadFromValue(lg.reqPayload).ok
    /\ LogInPayloadFromValue(lg.reqPayload).payload
         = BuildLoginPayload(lg.reqAt)

\* C15: every request carries the User-Agent of its requestor; a request
\* of a pending login (request_mfa_code, log_in) carries no Authorization
\* header, and a request of a session (a dispatch, a refresh) carries
\* Authorization "Bearer <token>" with the token the session holds when the
\* request is built; building a request changes neither the pending login
\* nor the session.
C15_HeadersByRequestor ==
    [][ /\ lg'.reqCalls >= 1
          => /\ lg'.reqHeaders.user_agent = lg'.reqAt.user_agent
             /\ ~lg'.reqHeaders.has_auth
             /\ lg'.reqHeaders.authorization = <<>>
        /\ lg'.pc = "log_in"
          => /\ lg'.loginHeaders.user_agent = lg'.loginAt.user_agent
             /\ ~lg'.loginHeaders.has_auth
             /\ lg'.loginHeaders.authorization = <<>>
        /\ lg'.reqCalls > lg.reqCalls /\ lg.pc = "pending" => mfa' = mfa
        /\ \A p \in Procs :
             /\ proc'[p].sends > proc[p].sends /\ proc[p].pc = "idle"
                  => /\ session' = session
                     /\ proc'[p].rq.headers.user_agent = session.user_agent
                     /\ proc'[p].rq.headers.has_auth
                     /\ proc'[p].rq.headers.authorization
                            = <<"Bearer ", session.token>>
             /\ proc'[p].refSent > proc[p].refSent
                  => /\ session' = session
                     /\ proc'[p].refHeaders.user_agent = session.user_agent
                     /\ proc'[p].refHeaders.has_auth
                     /\ proc'[p].refHeaders.authorization
                            = <<"Bearer ", session.token>>
      ]_vars
\* a session made by a login whose agent was changed is refreshing inside a
\* dispatch: the login requests went out without Authorization, the
\* dispatch and the refresh with the session's token
C15_Witness ==
    /\ lg.pc = "authenticated"
    /\ lg.loginHeaders.user_agent = "agent-2"
    /\ lg.reqHeaders.user_agent = USER_AGENT
    /\ ~lg.loginHeaders.has_auth /\ ~lg.reqHeaders.has_auth
    /\ \E p \in Procs :
         /\ Dispatch(p) /\ proc[p].pc = "refresh"
         /\ proc[p].rq.headers.user_agent = "agent-2"
         /\ proc[p].rq.headers.authorization = <<"Bearer ", session.token>>
         /\ proc[p].refHeaders = proc[p].rq.headers
         /\ session.token # lg.loginResp.body.f["access_token"].s

\* the refresh of context p has handled a response that carried neither
\* the invalid_grant marker nor a token set
NeitherGrantErrorNorSuccess(p) ==
    /\ proc[p].resp.kind \in {"body", "json_err"}
    /\ ~HasInvalidGrantMarker(proc[p].resp)
    /\ ~(proc[p].resp.kind = "body" /\ proc[p].resp.body \in SuccessBodies)
\* token, refresh_token and token_expires_in are all three as before the
\* call or all three those of the response body
AllOrNothing(p) ==
    \/ TokensAsBefore(p)
    \/ /\ proc[p].resp.kind = "body" /\ proc[p].resp.body \in SuccessBodies
       /\ session.token = proc[p].resp.body.f["access_token"].s
       /\ session.refresh_token = proc[p].resp.body.f["refresh_token"].s
       /\ session.token_expires_in = proc[p].resp.body.f["expires_in"].n

\* C21 (as stated): a refresh whose request failed to send fails with
\* RequestError, a refresh whose response body is neither an invalid_grant
\* error nor a valid success body fails with WrongResponseBody, in both
\* cases the three token fields are as before, and a refresh never leaves
\* the session partially updated.
C21_RefreshFailureKinds ==
    \A p \in Procs :
        (Done(p) /\ proc[p].resp.kind # "none")
        => /\ AllOrNothing(p)
           /\ proc[p].resp.kind = "send_err"
                => (proc[p].refResult = RequestError /\ TokensAsBefore(p))
           /\ NeitherGrantErrorNorSuccess(p)
                => (proc[p].refResult = WrongResponseBody /\ TokensAsBefore(p))

\* C21 (amended): as stated, except that a response whose body is not JSON
\* at all makes the refresh fail with RequestError, like a request that
\* failed to send; WrongResponseBody is for a JSON body that is neither.
C21_RefreshFailureKindsJson ==
    \A p \in Procs :
        (Done(p) /\ proc[p].resp.kind # "none")
        => /\ AllOrNothing(p)
           /\ proc[p].resp.kind \in {"send_err", "json_err"}
                => (proc[p].refResult = RequestError /\ TokensAsBefore(p))
           /\ (NeitherGrantErrorNorSuccess(p) /\ proc[p].resp.kind = "body")
                => (proc[p].refResult = WrongResponseBody /\ TokensAsBefore(p))
\* a refresh that followed a successful one got a body that is not JSON:
\* it failed with RequestError and the rotated tokens stayed
C21_Witness ==
    \E p \in Procs :
        /\ proc[p].op = "refresh_token" /\ Done(p)
        /\ proc[p].resp.kind = "json_err"
        /\ proc[p].result = RequestError
        /\ rotated.some
        /\ session.refresh_token # rotated.v

\* C22: the grant that a refresh sends carries the refresh_token and the
\* device_token the session holds at the moment of the call, whatever
\* setter or refresh came before, with grant_type refresh_token and the
\* fixed client_id; when the refresh before it succeeded and the server
\* answered with another refresh token, the grant does not carry the
\* replaced one again.
C22_GrantFromCurrentSession ==
    [][ \A p \in Procs :
          proc'[p].refSent > proc[p].refSent
          => /\ proc'[p].grant.refresh_token = session.refresh_token
             /\ proc'[p].grant.device_token = session.device_token
             /\ proc'[p].grant.grant_type = "refresh_token"
             /\ proc'[p].grant.client_id
                    = "c82SH0WZOsabOXGP2sxqcj34FxkvfnWRZBKlBjFS"
             /\ (rotated.some /\ rotated.v # session.refresh_token)
                  => proc'[p].grant.refresh_token # rotated.v
      ]_vars
\* a refresh is out for the second device with the refresh token that the
\* refresh before it had stored in place of the one it sent
C22_Witness ==
    \E p \in Procs :
        /\ proc[p].op = "refresh_token" /\ proc[p].pc = "refresh"
        /\ rotated.some /\ rotated.v # session.refresh_token
        /\ proc[p].grant.refresh_token = session.refresh_token
        /\ proc[p].grant.device_token = "U2"

\* the method that a send for the caller's kind of request has
MethodOf(kind) == IF kind = "Post" THEN "POST" ELSE "GET"

\* C23 (as stated): every send attempt of a dispatch has the method, the
\* url and the JSON payload of the request the caller passed, and a
\* dispatch whose request cannot be cloned fails without sending anything.
C23_AttemptsAsRequested ==
    \A p \in Procs :
        (Dispatch(p) /\ call.op = "req")
        => /\ \A i \in 1..Len(proc[p].sent) :
                 /\ proc[p].sent[i].rq.method = MethodOf(call.s2)
                 /\ proc[p].sent[i].rq.url = call.s1
                 /\ proc[p].sent[i].rq.json = [some |-> call.b, v |-> call.v]
           /\ proc[p].result = CloneFailed => proc[p].sent = <<>>

\* C23 (amended): every send attempt of a dispatch has the method and the
\* url of the request the caller passed; it has the caller's JSON payload
\* when the request is a Post and no body when it is a Get, whatever
\* payload the caller passed; and a dispatch whose request cannot be cloned
\* fails without sending anything.
C23_AttemptsAlike ==
    \A p \in Procs :
        (Dispatch(p) /\ call.op = "req")
        => /\ \A i \in 1..Len(proc[p].sent) :
                 /\ proc[p].sent[i].rq.method = MethodOf(call.s2)
                 /\ proc[p].sent[i].rq.url = call.s1
                 /\ proc[p].sent[i].rq.json
                        = IF call.s2 = "Post"
                          THEN [some |-> call.b, v |-> call.v]
                          ELSE [some |-> FALSE, v |-> JEmptyArray]
           /\ proc[p].result = CloneFailed => proc[p].sent = <<>>
\* a Post with a payload was sent again after a server error, with the
\* payload both times
C23_Witness ==
    \E p \in Procs :
        /\ Dispatch(p) /\ Done(p)
        /\ call.op = "req" /\ call.s2 = "Post" /\ call.b
        /\ Len(proc[p].sent) = 2
        /\ Is5xx(proc[p].hist[1])
        /\ proc[p].sent[2].rq.json.some
        /\ proc[p].sent[2].rq.json.v = call.v
        /\ proc[p].sent[2].rq.url = LoginUrl

\* C24 (as stated): the sends of one dispatch are bounded by the retry
\* count the session is configured with: a dispatch makes its first send
\* and at most `retries` further ones.
C24_SendsBoundedByRetries ==
    \A p \in Procs :
        Dispatch(p) => proc[p].sends <= proc[p].pre.retries + 1

\* C25: when a dispatch has finished, device_token, user_agent, username,
\* password, auto_refresh and the retry settings of the session are as they
\* were when it started, and token, refresh_token and token_expires_in are
\* too unless a refresh that this dispatch invoked succeeded.
C25_DispatchFrame ==
    \A p \in Procs :
        (Dispatch(p) /\ Done(p))
        => /\ session.device_token = proc[p].pre.device_token
           /\ session.user_agent = proc[p].pre.user_agent
           /\ session.username = proc[p].pre.username
           /\ session.password = proc[p].pre.password
           /\ session.auto_refresh = proc[p].pre.auto_refresh
           /\ session.auto_retry = proc[p].pre.auto_retry
           /\ session.retries = proc[p].pre.retries
           /\ proc[p].refResult.tag # "OkSome" => TokensAsBefore(p)
\* a dispatch on a session with the second device and retry enabled has
\* refreshed once and replaced the access token
C25_Witness ==
    \E p \in Procs :
        /\ Dispatch(p) /\ Done(p)
        /\ proc[p].refCalls = 1
        /\ proc[p].refResult.tag = "OkSome"
        /\ session.token # proc[p].pre.token
        /\ session.device_token = "U2"
        /\ session.auto_retry

\* C26: every call of log_in, for any pending login and any code, reaches
\* the send: the payload it has built is a JSON object with an mfa_code
\* field, and log_in never returns EmptyLoginBody or MissingMfaCode.
C26_LogInReachesSend ==
    [][ /\ lg'.redeems > lg.redeems
          => /\ lg'.pc = "log_in"
             /\ lg'.loginPayload.obj
             /\ "mfa_code" \in DOMAIN lg'.loginPayload.f
        /\ lg'.result \notin {"EmptyLoginBody", "MissingMfaCode"}
      ]_vars
\* log_in called with the empty string as code has sent its request
C26_Witness ==
    /\ lg.pc = "log_in"
    /\ lg.redeems = 1
    /\ lg.code = ""
    /\ lg.loginPayload.f["mfa_code"] = JStr("")
    /\ lg.result \notin {"EmptyLoginBody", "MissingMfaCode"}

====
